---- MODULE Spec2Model ----
(***************************************************************************)
(* The WebSocket room broadcaster of LovePing Server (main.py, the global  *)
(* `rooms` dict and the `ws_room` handler).  One handler coroutine runs    *)
(* per connection on a single asyncio event loop: the code between two     *)
(* `await`s is one atomic step, and every `await` is a point where the     *)
(* other handlers and the peers may act.                                   *)
(***************************************************************************)
EXTENDS Integers, Sequences, FiniteSets, TLC

\* Number of WebSocket connections the network layer hands to ws_room.  They
\* are numbered in the order in which their accept() calls return.
NumConns == 3

\* Number of text messages the peers send, all connections together.
MaxMsgs == 3

Conns == 1..NumConns

\* The room names clients connect to (the {room} path parameter), named in
\* the order of their first use.
RoomOrder == <<"r1", "r2">>
RoomKeys == {RoomOrder[i] : i \in 1..Len(RoomOrder)}

NoRoom == "none"

VARIABLES
    rooms,    \* the global dict: room key -> set of connections
    pc,       \* where each handler coroutine stands
    room,     \* the `room` argument of each handler
    chan,     \* the transport under each connection, as the peer left it
    todo,     \* the sends the handler's for loop still has to make
    sent,     \* how many messages each handler has read so far
    snaps,    \* history: the membership copied for each message read
    inbox,    \* history: the send_text calls made on a connection, per sender
    exit,     \* how each handler ended
    leaves    \* history: how often the handler's finally clause ran

vars == <<rooms, pc, room, chan, todo, sent, snaps, inbox, exit, leaves>>

----------------------------------------------------------------------------
\* Pure helpers

\* rooms.get(r, set()): the stored set, or a fresh empty one.
Get(rm, r) == IF r \in DOMAIN rm THEN rm[r] ELSE {}

\* A setdefault that replaces the stored set instead of returning it.
SetDefaultAddLost(rm, r, c) ==
    [k \in DOMAIN rm \cup {r} |-> IF k = r THEN {c} ELSE rm[k]]

\* The add through get: on a missing key it goes to the temporary set.
SetDefaultAddGet(rm, r, c) ==
    IF r \in DOMAIN rm THEN [rm EXCEPT ![r] = @ \cup {c}] ELSE rm

\* A setdefault whose default is one set object shared by every room: what
\* is added to one room shows in all of them.
SetDefaultAddShared(rm, r, c) ==
    [k \in DOMAIN rm \cup {r} |->
        UNION {rm[j] : j \in DOMAIN rm} \cup {c}]

\* rooms.setdefault(r, set()).add(c)
SetDefaultAdd(rm, r, c) ==
    [k \in DOMAIN rm \cup {r} |-> IF k = r THEN Get(rm, r) \cup {c} ELSE rm[k]]

\* A finally clause that removes nothing.
GetDiscardKeep(rm, r, c) == rm

\* The discard through setdefault: a missing key gets an empty entry.
GetDiscardSetdefault(rm, r, c) ==
    [k \in DOMAIN rm \cup {r} |-> IF k = r THEN Get(rm, r) \ {c} ELSE rm[k]]

\* A finally clause that drops the whole room entry when one member leaves.
GetDiscardDrop(rm, r, c) == [k \in DOMAIN rm \ {r} |-> rm[k]]

\* rooms.get(r, set()).discard(c): on a missing key the discard hits the
\* temporary set and the dict is left alone.
GetDiscard(rm, r, c) ==
    IF r \in DOMAIN rm THEN [rm EXCEPT ![r] = @ \ {c}] ELSE rm

\* The lists with a repeated first element: a membership kept in a list.
SnapshotListsDup(S) ==
    {<<f[1]>> \o f : f \in {g \in [1..Cardinality(S) -> S] :
                      \A i, j \in 1..Cardinality(S) : g[i] = g[j] => i = j}}

\* list(S) of a set S: its elements once each, in an order Python chooses.
SnapshotLists(S) ==
    {f \in [1..Cardinality(S) -> S] :
        \A i, j \in 1..Cardinality(S) : f[i] = f[j] => i = j}

\* send_text on a connection: completes on an open transport, raises on a
\* closed or failed one (and does not return on a stalled one).
SendOk(c) == chan[c] = "open"

\* The iterations of `for client in l` that send message number n.
Loop(l, n) == [i \in 1..Len(l) |-> [client |-> l[i], msg |-> n]]

\* The messages read so far, all connections together.
RECURSIVE Sum(_, _)
Sum(f, S) ==
    IF S = {} THEN 0
    ELSE LET x == CHOOSE y \in S : TRUE IN f[x] + Sum(f, S \ {x})

----------------------------------------------------------------------------
Init ==
    /\ rooms = <<>>
    /\ pc = [c \in Conns |-> "accept"]
    /\ room = [c \in Conns |-> NoRoom]
    /\ chan = [c \in Conns |-> "open"]
    /\ todo = [c \in Conns |-> <<>>]
    /\ sent = [c \in Conns |-> 0]
    /\ snaps = [c \in Conns |-> <<>>]
    /\ inbox = [c \in Conns |-> [s \in Conns |-> <<>>]]
    /\ exit = [c \in Conns |-> "none"]
    /\ leaves = [c \in Conns |-> 0]

----------------------------------------------------------------------------
\* The peers and the network

\* The peer closes its connection, or the transport under it fails.
PeerClose(c) ==
    /\ chan[c] \in {"open", "stalled"}
    /\ pc[c] # "done"
    /\ chan' = [chan EXCEPT ![c] = "closed"]
    /\ UNCHANGED <<rooms, pc, room, todo, sent, snaps, inbox, exit, leaves>>

\* The peer stops reading: sends to it neither complete nor fail.
Stall(c) ==
    /\ chan[c] = "open"
    /\ pc[c] \in {"receive", "fanout"}
    /\ chan' = [chan EXCEPT ![c] = "stalled"]
    /\ UNCHANGED <<rooms, pc, room, todo, sent, snaps, inbox, exit, leaves>>

----------------------------------------------------------------------------
\* The handler ws_room(ws, room), one per connection c

\* accept() completes and the connection is added to its room.  The second
\* and fourth conjuncts are the numbering of connections and rooms: c is the
\* next connection to come out of accept(), r a room already used or the
\* next unused name.
Join(c, r) ==
    /\ pc[c] = "accept"
    /\ \A d \in Conns : d < c => pc[d] # "accept"
    /\ chan[c] = "open"
    /\ \A i, j \in 1..Len(RoomOrder) :
            (RoomOrder[j] = r /\ i < j) => RoomOrder[i] \in DOMAIN rooms
    /\ rooms' = SetDefaultAdd(rooms, r, c)
    /\ room' = [room EXCEPT ![c] = r]
    /\ pc' = [pc EXCEPT ![c] = "receive"]
    /\ UNCHANGED <<chan, todo, sent, snaps, inbox, exit, leaves>>

\* accept() raises: the handler ends before it reaches the add.
AcceptFail(c) ==
    /\ pc[c] = "accept"
    /\ \A d \in Conns : d < c => pc[d] # "accept"
    /\ chan[c] = "closed"
    /\ pc' = [pc EXCEPT ![c] = "done"]
    /\ exit' = [exit EXCEPT ![c] = "accept_error"]
    /\ UNCHANGED <<rooms, room, chan, todo, sent, snaps, inbox, leaves>>

\* A handler that hands each fan-out to a task of its own and reads on: the
\* sends of the newer message may run ahead of those still pending.
ReceiveSpawn(c) ==
    /\ pc[c] \in {"receive", "fanout"}
    /\ chan[c] = "open"
    /\ Sum(sent, Conns) < MaxMsgs
    /\ \E l \in SnapshotLists(Get(rooms, room[c])) :
        /\ todo' = [todo EXCEPT ![c] = Loop(l, sent[c] + 1) \o @]
        /\ pc' = [pc EXCEPT ![c] =
                    IF Loop(l, sent[c] + 1) \o todo[c] = <<>> THEN "receive" ELSE "fanout"]
    /\ snaps' = [snaps EXCEPT ![c] = Append(@, Get(rooms, room[c]))]
    /\ sent' = [sent EXCEPT ![c] = @ + 1]
    /\ UNCHANGED <<rooms, room, chan, inbox, exit, leaves>>

\* A registry that is one flat set of clients: the copy holds the members of
\* every room.
ReceiveAllRooms(c) ==
    /\ pc[c] = "receive"
    /\ chan[c] = "open"
    /\ Sum(sent, Conns) < MaxMsgs
    /\ \E l \in SnapshotLists(UNION {rooms[k] : k \in DOMAIN rooms}) :
        /\ todo' = [todo EXCEPT ![c] = Loop(l, sent[c] + 1)]
        /\ pc' = [pc EXCEPT ![c] = IF l = <<>> THEN "receive" ELSE "fanout"]
    /\ snaps' = [snaps EXCEPT ![c] = Append(@, UNION {rooms[k] : k \in DOMAIN rooms})]
    /\ sent' = [sent EXCEPT ![c] = @ + 1]
    /\ UNCHANGED <<rooms, room, chan, inbox, exit, leaves>>

\* receive_text() returns a message and the for loop copies the membership.
\* The sender is a member, so the copy holds at least the sender.
Receive(c) ==
    /\ pc[c] = "receive"
    /\ chan[c] = "open"
    /\ Sum(sent, Conns) < MaxMsgs
    /\ \E l \in SnapshotLists(Get(rooms, room[c])) :
        /\ todo' = [todo EXCEPT ![c] = Loop(l, sent[c] + 1)]
        /\ pc' = [pc EXCEPT ![c] = IF l = <<>> THEN "receive" ELSE "fanout"]
    /\ snaps' = [snaps EXCEPT ![c] = Append(@, Get(rooms, room[c]))]
    /\ sent' = [sent EXCEPT ![c] = @ + 1]
    /\ UNCHANGED <<rooms, room, chan, inbox, exit, leaves>>

\* The loop without its try/except: a failed send_text leaves the handler
\* through the finally clause.
SendStepRaises(c) ==
    /\ pc[c] = "fanout"
    /\ LET client == Head(todo[c]).client
           msg == Head(todo[c]).msg IN
        /\ chan[client] # "stalled"
        /\ inbox' = [inbox EXCEPT ![client][c] =
                Append(@, [seq |-> msg, ok |-> SendOk(client)])]
        /\ IF SendOk(client)
           THEN /\ todo' = [todo EXCEPT ![c] = Tail(@)]
                /\ pc' = [pc EXCEPT ![c] =
                            IF Tail(todo[c]) = <<>> THEN "receive" ELSE "fanout"]
                /\ UNCHANGED <<rooms, chan, exit, leaves>>
           ELSE /\ todo' = [todo EXCEPT ![c] = <<>>]
                /\ pc' = [pc EXCEPT ![c] = "done"]
                /\ rooms' = GetDiscard(rooms, room[c], c)
                /\ chan' = [chan EXCEPT ![c] = "closed"]
                /\ exit' = [exit EXCEPT ![c] = "send_error"]
                /\ leaves' = [leaves EXCEPT ![c] = @ + 1]
    /\ UNCHANGED <<room, sent, snaps>>

\* The loop over the live membership instead of a copy of it: a client that
\* has left the room by the time its turn comes is passed over.
SendStepLive(c) ==
    /\ pc[c] = "fanout"
    /\ LET client == Head(todo[c]).client
           msg == Head(todo[c]).msg IN
        IF client \in Get(rooms, room[c])
        THEN /\ chan[client] # "stalled"
             /\ inbox' = [inbox EXCEPT ![client][c] =
                     Append(@, [seq |-> msg, ok |-> SendOk(client)])]
        ELSE UNCHANGED inbox
    /\ todo' = [todo EXCEPT ![c] = Tail(@)]
    /\ pc' = [pc EXCEPT ![c] = IF Tail(todo[c]) = <<>> THEN "receive" ELSE "fanout"]
    /\ UNCHANGED <<rooms, room, chan, sent, snaps, exit, leaves>>

\* One iteration of the for loop: send_text to the next client of the list,
\* any Exception it raises swallowed.
SendStep(c) ==
    /\ pc[c] = "fanout"
    /\ LET client == Head(todo[c]).client
           msg == Head(todo[c]).msg IN
        /\ chan[client] # "stalled"
        /\ inbox' = [inbox EXCEPT ![client][c] =
                Append(@, [seq |-> msg, ok |-> SendOk(client)])]
    /\ todo' = [todo EXCEPT ![c] = Tail(@)]
    /\ pc' = [pc EXCEPT ![c] = IF Tail(todo[c]) = <<>> THEN "receive" ELSE "fanout"]
    /\ UNCHANGED <<rooms, room, chan, sent, snaps, exit, leaves>>

\* receive_text() raises WebSocketDisconnect: caught, then the finally clause.
Disconnect(c) ==
    /\ pc[c] = "receive"
    /\ chan[c] = "closed"
    /\ rooms' = GetDiscard(rooms, room[c], c)
    /\ pc' = [pc EXCEPT ![c] = "done"]
    /\ exit' = [exit EXCEPT ![c] = "disconnect"]
    /\ leaves' = [leaves EXCEPT ![c] = @ + 1]
    /\ UNCHANGED <<room, chan, todo, sent, snaps, inbox>>

\* The discard placed in the except clause instead of a finally clause: an
\* error other than WebSocketDisconnect skips it.
ReadErrorNoFinally(c) ==
    /\ pc[c] = "receive"
    /\ chan[c] \in {"open", "closed"}
    /\ pc' = [pc EXCEPT ![c] = "done"]
    /\ exit' = [exit EXCEPT ![c] = "read_error"]
    /\ chan' = [chan EXCEPT ![c] = "closed"]
    /\ UNCHANGED <<rooms, room, todo, sent, snaps, inbox, leaves>>

\* receive_text() raises an error other than WebSocketDisconnect (a failed
\* transport, a frame that is not text): the finally clause runs and the
\* error leaves the handler, which ends the connection.
ReadError(c) ==
    /\ pc[c] = "receive"
    /\ chan[c] \in {"open", "closed"}
    /\ rooms' = GetDiscard(rooms, room[c], c)
    /\ pc' = [pc EXCEPT ![c] = "done"]
    /\ exit' = [exit EXCEPT ![c] = "read_error"]
    /\ leaves' = [leaves EXCEPT ![c] = @ + 1]
    /\ chan' = [chan EXCEPT ![c] = "closed"]
    /\ UNCHANGED <<room, todo, sent, snaps, inbox>>

Handler(c) ==
    \/ \E r \in RoomKeys : Join(c, r)
    \/ AcceptFail(c)
    \/ Receive(c)
    \/ SendStep(c)
    \/ Disconnect(c)
    \/ ReadError(c)

Next ==
    \/ \E c \in Conns : PeerClose(c)
    \/ \E c \in Conns : Stall(c)
    \/ \E c \in Conns : Handler(c)

Spec == Init /\ [][Next]_vars

\* The event loop runs every handler that can take a step; the peers owe
\* nothing.
FairSpec == Spec /\ \A c \in Conns : WF_vars(Handler(c))

----------------------------------------------------------------------------
\* Reading the history

\* The messages read so far: <<s, n>> is the n-th message read from s.
Broadcasts == {b \in Conns \X (1..MaxMsgs) : b[2] <= sent[b[1]]}

\* The send_text calls of message n of sender s made on connection c.
Attempts(s, n, c) == {i \in 1..Len(inbox[c][s]) : inbox[c][s][i].seq = n}

Attempted(s, n, c) == Attempts(s, n, c) # {}

Failed(s, n, c) == \E i \in Attempts(s, n, c) : ~inbox[c][s][i].ok

Delivered(s, n, c) == \E i \in Attempts(s, n, c) : inbox[c][s][i].ok

\* The for loop of message n of sender s has ended.
Complete(s, n) == n < sent[s] \/ (n = sent[s] /\ pc[s] # "fanout")

\* The clients the for loop of sender s has still to send to.
Pending(s) == {todo[s][i].client : i \in 1..Len(todo[s])}

Joined(c) == room[c] # NoRoom

----------------------------------------------------------------------------
\* C1: the fan-out of a message never sends it to the connection that sent it.
C1_SenderExclusion ==
    \A s \in Conns : inbox[s][s] = <<>>

\* C2: a client whose send failed during a fan-out is out of the room's
\* membership once that fan-out has ended.
C2_ImplicitLeave ==
    \A b \in Broadcasts : \A c \in Conns \ {b[1]} :
        (Complete(b[1], b[2]) /\ Failed(b[1], b[2], c))
            => c \notin Get(rooms, room[b[1]])

\* C3: when a send of a fan-out fails, the other clients of the copied
\* membership are still sent the message, no send error ends the sender's
\* handler, and the sender stays a member and goes back to reading.
C3_FailureIsolation ==
    \A b \in Broadcasts :
        LET s == b[1]
            n == b[2] IN
        (\E c \in Conns : Failed(s, n, c)) =>
            /\ exit[s] \in {"none", "disconnect", "read_error"}
            /\ \A d \in snaps[s][n] :
                    Attempted(s, n, d) \/ (~Complete(s, n) /\ d \in Pending(s))
            /\ exit[s] = "none" =>
                    /\ pc[s] \in {"receive", "fanout"}
                    /\ s \in Get(rooms, room[s])

C3_Witness ==
    \E s, c, d \in Conns :
        /\ c # d /\ d # s
        /\ Failed(s, 1, c) /\ Delivered(s, 1, d)
        /\ sent[s] = 2 /\ pc[s] = "fanout"

\* C4: every member of the membership copied for a message, the sender
\* aside, is sent the message, whoever leaves or joins the room afterwards.
C4_DeliveryCompleteness ==
    \A b \in Broadcasts :
        LET s == b[1]
            n == b[2] IN
        \A c \in snaps[s][n] \ {s} :
            IF Complete(s, n)
            THEN Attempted(s, n, c)
            ELSE Attempted(s, n, c) \/ c \in Pending(s)

C4_Witness ==
    \E b \in Broadcasts : \E c, d \in snaps[b[1]][b[2]] \ {b[1]} :
        /\ Complete(b[1], b[2])
        /\ c \notin Get(rooms, room[b[1]]) /\ Attempted(b[1], b[2], c)
        /\ Delivered(b[1], b[2], d)
        /\ \E j \in Get(rooms, room[b[1]]) : j \notin snaps[b[1]][b[2]]

\* C5: no key of the registry maps to an empty membership set.
C5_EmptyRoomsReleased ==
    \A r \in DOMAIN rooms : rooms[r] # {}

\* C6: the membership of every room is the set of connections that joined
\* it minus the set of those that left.
C6_LinearizableMembership ==
    \A r \in RoomKeys :
        Get(rooms, r) = {c \in Conns : room[c] = r /\ leaves[c] = 0}

C6_Witness ==
    \E c, d, e \in Conns :
        /\ c # d /\ d # e /\ c # e
        /\ room[c] = room[d] /\ room[d] = room[e] /\ Joined(c)
        /\ leaves[c] = 1 /\ leaves[d] = 0 /\ leaves[e] = 0
        /\ c < e

\* C7: a handler whose read ended in a disconnect or an error has left its
\* room exactly once and is in no room; a handler still reading or fanning
\* out is a member of its room.
C7_ConnectionLifecycle ==
    \A c \in Conns :
        /\ exit[c] \in {"disconnect", "read_error"} =>
                /\ pc[c] = "done"
                /\ leaves[c] = 1
                /\ \A r \in DOMAIN rooms : c \notin rooms[r]
        /\ pc[c] \in {"receive", "fanout"} =>
                /\ leaves[c] = 0
                /\ c \in Get(rooms, room[c])
        /\ (pc[c] = "done" /\ Joined(c)) => exit[c] \in {"disconnect", "read_error"}

C7_Witness ==
    \E c, d \in Conns :
        /\ exit[c] = "read_error" /\ sent[c] > 0
        /\ exit[d] = "disconnect"
        /\ room[c] = room[d]

\* C8: a handler in its fan-out always gets back to reading, also when a
\* send of the fan-out never returns.
C8_BoundedSend ==
    \A s \in Conns : (pc[s] = "fanout") ~> (pc[s] # "fanout")

\* C9: a connection is sent the messages of one sender in the order the
\* sender's handler read them, and the handler starts no fan-out before the
\* one before it has ended.
C9_PerSenderFIFO ==
    \A s, c \in Conns :
        /\ \A i, j \in 1..Len(inbox[c][s]) :
                i < j => inbox[c][s][i].seq < inbox[c][s][j].seq
        /\ \A i \in 1..Len(todo[s]) : todo[s][i].msg = sent[s]

C9_Witness ==
    \E s, c, t \in Conns :
        /\ s # c /\ t # s
        /\ Delivered(s, 1, c) /\ Delivered(s, 2, c)
        /\ Delivered(t, 1, c)

\* C10: a connection is sent a message at most once, and a member of the
\* copied membership whose send does not fail gets it exactly once.
C10_AtMostOnce ==
    \A s, c \in Conns :
        /\ \A i, j \in 1..Len(inbox[c][s]) :
                inbox[c][s][i].seq = inbox[c][s][j].seq => i = j
        /\ \A i \in 1..Len(inbox[c][s]) : c \in snaps[s][inbox[c][s][i].seq]
        /\ \A n \in 1..sent[s] :
                (Complete(s, n) /\ c \in snaps[s][n] /\ ~Failed(s, n, c))
                    => Delivered(s, n, c)

C10_Witness ==
    \E s, t, j \in Conns :
        /\ s # t /\ t # j /\ s # j
        /\ pc[s] = "fanout" /\ pc[t] = "fanout"
        /\ room[s] = room[t] /\ room[t] = room[j]
        /\ j \in Get(rooms, room[s]) /\ j \notin snaps[s][sent[s]]
        /\ Delivered(s, sent[s], t)

\* C11: a message is sent to a connection only if the membership copied for
\* it holds the connection, and that copy holds only connections that have
\* joined the sender's room and not left it when the copy is taken.
C11_NoDeliveryOutsideSnapshot ==
    [][/\ \A s \in Conns :
            sent'[s] # sent[s] =>
                snaps'[s][sent'[s]] \subseteq
                    {c \in Conns : room[c] = room[s] /\ pc[c] \in {"receive", "fanout"}}
       /\ \A s, c \in Conns : \A i \in 1..Len(inbox'[c][s]) :
            c \in snaps'[s][inbox'[c][s][i].seq]]_vars

C11_Witness ==
    \E s, c, d \in Conns :
        /\ room[c] = room[s] /\ Joined(c)
        /\ sent[s] = 2 /\ Complete(s, 2)
        /\ c \notin snaps[s][1] /\ ~Attempted(s, 1, c) /\ Delivered(s, 2, c)
        /\ d \in snaps[s][1] /\ d \notin snaps[s][2]
        /\ leaves[d] = 1 /\ ~Attempted(s, 2, d)

\* C12: the discard of the finally clause, made a second time, changes
\* nothing, and made for a connection that is no member, or for a key the
\* registry does not hold, it leaves the registry as it is.
C12_LeaveIdempotent ==
    \A r \in RoomKeys : \A c \in Conns :
        LET once == GetDiscard(rooms, r, c) IN
        /\ GetDiscard(once, r, c) = once
        /\ c \notin Get(once, r)
        /\ c \notin Get(rooms, r) => once = rooms
        /\ DOMAIN once = DOMAIN rooms

C12_Witness ==
    \E c, d \in Conns : \E r \in RoomKeys :
        /\ leaves[c] = 1 /\ room[c] \in DOMAIN rooms
        /\ d \in Get(rooms, room[c])
        /\ GetDiscard(rooms, room[c], c) = rooms
        /\ r \notin DOMAIN rooms /\ GetDiscard(rooms, r, d) = rooms

\* The registry as it would be had room r never been joined.
NeverJoined(rm, r) == [k \in DOMAIN rm \ {r} |-> rm[k]]

\* C13: a room all of whose members have left is the same, to every
\* operation and in the registry itself, as a room that was never joined.
C13_EmptiedAsNeverCreated ==
    \A r \in RoomKeys :
        Get(rooms, r) = {} =>
            /\ SnapshotLists(Get(rooms, r)) = SnapshotLists(Get(NeverJoined(rooms, r), r))
            /\ \A c \in Conns :
                /\ SetDefaultAdd(rooms, r, c) = SetDefaultAdd(NeverJoined(rooms, r), r, c)
                /\ GetDiscard(rooms, r, c) = GetDiscard(NeverJoined(rooms, r), r, c)
            /\ rooms = NeverJoined(rooms, r)

\* C14: a connection that comes out of accept() is, in the same step, a
\* member of an entry for its room key, created if there was none, next to
\* all the members the room had, and its handler has met no error; a
\* connection whose accept() failed is in no room.
C14_JoinSucceeds ==
    [][\A c \in Conns :
        /\ (pc[c] = "accept" /\ pc'[c] = "receive") =>
                /\ room'[c] \in RoomKeys
                /\ room'[c] \in DOMAIN rooms'
                /\ rooms'[room'[c]] = Get(rooms, room'[c]) \cup {c}
                /\ exit'[c] = "none"
        /\ exit'[c] = "accept_error" =>
                \A r \in DOMAIN rooms' : c \notin rooms'[r]]_vars

C14_Witness ==
    \E c, d, e \in Conns :
        /\ c # d
        /\ room[c] = "r1" /\ {c, d} \subseteq Get(rooms, "r1")
        /\ exit[e] = "accept_error"
        /\ "r2" \notin DOMAIN rooms

\* C15: a message read from a member of one room is sent only to
\* connections of that room, never to a connection of another room.
C15_RoomIsolation ==
    \A s, c \in Conns :
        /\ inbox[c][s] # <<>> => (Joined(c) /\ room[c] = room[s])
        /\ \A i \in 1..Len(todo[s]) : room[todo[s][i].client] = room[s]

C15_Witness ==
    \E s, c, d \in Conns :
        /\ s # c /\ room[c] = room[s] /\ Delivered(s, 1, c)
        /\ Joined(d) /\ room[d] # room[s] /\ pc[d] = "receive" /\ chan[d] = "open"
        /\ Complete(s, 1) /\ inbox[d][s] = <<>>

\* C16: a connection is in the membership set of at most one room, the room
\* of the key it was accepted with.
C16_OneRoomPerConnection ==
    \A c \in Conns : \A r \in DOMAIN rooms :
        c \in rooms[r] => (r = room[c] /\ r \in RoomKeys)

C16_Witness ==
    \E c, d \in Conns :
        /\ room[c] = "r1" /\ c \in Get(rooms, "r1")
        /\ room[d] = "r2" /\ d \in Get(rooms, "r2")
        /\ sent[c] > 0 /\ sent[d] > 0

\* C17: a step of the handler of a connection c of room R leaves the entry
\* and the membership of every other room as they are; its join adds c to R
\* and nothing else, its leave takes c out of R and nothing else, and its
\* reads and sends leave the registry alone.
C17_CrossRoomFrame ==
    [][\A c \in Conns :
        (pc'[c] # pc[c] \/ todo'[c] # todo[c] \/ sent'[c] # sent[c]) =>
            /\ \A r \in RoomKeys \ {room'[c]} :
                /\ (r \in DOMAIN rooms') = (r \in DOMAIN rooms)
                /\ Get(rooms', r) = Get(rooms, r)
            /\ Joined(c)' =>
                Get(rooms', room'[c]) =
                    IF pc[c] = "accept" THEN Get(rooms, room'[c]) \cup {c}
                    ELSE IF pc'[c] = "done" THEN Get(rooms, room'[c]) \ {c}
                    ELSE Get(rooms, room'[c])
            /\ ~Joined(c)' => rooms' = rooms]_vars

C17_Witness ==
    \E c, d, e \in Conns :
        /\ c # d
        /\ room[c] = room[d] /\ Joined(c) /\ leaves[c] = 1
        /\ d \in Get(rooms, room[d]) /\ sent[d] > 0
        /\ Joined(e) /\ room[e] # room[c] /\ e \in Get(rooms, room[e])

\* C18: a member whose peer has closed, or whose transport has failed, is
\* in the end taken out of its room, wherever its handler stands.
C18_EventualCleanup ==
    \A c \in Conns :
        (chan[c] = "closed" /\ c \in Get(rooms, room[c]))
            ~> (c \notin Get(rooms, room[c]))

====
